---- MODULE Spec2Model ----
(***************************************************************************)
(* Versioned key-value ledger of istio/pkg (package ledger): a paged       *)
(* sparse Merkle trie (smt), its page store, the history list and the      *)
(* string facade smtLedger.                                                *)
(*                                                                         *)
(* Byte strings are sequences of bytes.  A byte is a record: Raw(n) is the *)
(* byte n; the first byte of a digest carries the hashed input (the hash   *)
(* is taken to be collision-free), the other bytes of a digest are zero.   *)
(* The digest width is scaled down from 8 bytes to hashLength bytes; the   *)
(* trie height follows it (8 bits per byte), the page geometry is kept.    *)
(***************************************************************************)
EXTENDS Integers, Sequences, FiniteSets, TLC

hashLength == 2
trieHeight == hashLength * 8
batchLen == 31
batchHeight == 4

(* ---------------------------- bytes ------------------------------------ *)
Raw(n) == [b |-> n]
Zero == Raw(0)
One == Raw(1)
Zeros(n) == [i \in 1..n |-> Zero]
Nil == <<>>

\* s[:n] for n <= len(s)
Take(s, n) == SubSeq(s, 1, n)

\* type hash [hashLength]byte; copy(h[:], key): the first hashLength bytes,
\* zero filled when key is shorter
toHash(key) == [i \in 1..hashLength |-> IF i <= Len(key) THEN key[i] ELSE Zero]

\* hasher(data...): murmur3 over the concatenation of the arguments
hasher(a, b) == <<[h |-> a \o b]>> \o Zeros(hashLength - 1)

\* loadDefaultHashes: one digest per height (an opaque digest per height)
defaultHashes(h) == <<[d |-> h]>> \o Zeros(hashLength - 1)

\* bits[i/8] & (1 << (7 - i%8)) != 0 (i counted from 0, MSB first)
bitIsSet(bits, i) == ((bits[(i \div 8) + 1].b \div (2 ^ (7 - (i % 8)))) % 2) = 1

\* bytes.Compare(a, b) < 0 on raw byte strings
RECURSIVE bytesLess(_, _)
bytesLess(a, b) ==
  IF Len(b) = 0 THEN FALSE
  ELSE IF Len(a) = 0 THEN TRUE
  ELSE IF a[1].b # b[1].b THEN a[1].b < b[1].b
  ELSE bytesLess(Tail(a), Tail(b))

(* ------------------------ nodes and pages ------------------------------ *)
NilNode == [nilnode |-> TRUE]
NoPage == [nopage |-> TRUE]
mkNode(v) == [val |-> v, next |-> NoPage]

Slots == 0..(batchLen - 1)

heightInPage(i) ==
  IF i >= 15 THEN 4 ELSE IF i >= 7 THEN 3 ELSE IF i >= 3 THEN 2
  ELSE IF i >= 1 THEN 1 ELSE 0

leftIndex(i) == IF 2 * i + 1 >= batchLen THEN 1 ELSE 2 * i + 1
rightIndex(i) == IF 2 * i + 2 >= batchLen THEN 2 ELSE 2 * i + 2

\* node.isLeaf: the node is a leaf of its page
isLeaf(i) == i + 1 >= 2 ^ batchHeight

\* node.height
height(P, i) == P.height - heightInPage(i)

buildPage(rawPage, h, key) ==
  LET rp == IF Len(rawPage) = 0 THEN << <<Zero>> >> ELSE rawPage
  IN [root |-> key, height |-> h,
      nodes |-> [i \in Slots |->
                   IF i + 1 <= Len(rp) /\ Len(rp[i + 1]) # 0
                   THEN mkNode(rp[i + 1]) ELSE NilNode]]

\* page.getRawNodes
getRawNodes(p) ==
  [i \in 1..batchLen |->
     IF p.nodes[i - 1] = NilNode THEN Nil ELSE p.nodes[i - 1].val]

\* retrieveOrBuildPage: NoPage stands for the nil page of a cache miss
retrieveOrBuildPage(db, key, h) ==
  IF key = Nil THEN buildPage(<<>>, h, Nil)
  ELSE IF toHash(key) \in DOMAIN db THEN buildPage(db[toHash(key)], h, key)
  ELSE NoPage

\* node.getNextPage: loads and caches the next page of node i of page P
getNextPage(P, i, db) ==
  IF P.nodes[i].next = NoPage
  THEN [P EXCEPT !.nodes[i].next = retrieveOrBuildPage(db, P.nodes[i].val, height(P, i))]
  ELSE P

\* the page that holds the children of node i (after getNextPage)
childPage(P, i) == IF isLeaf(i) THEN P.nodes[i].next ELSE P
withChildPage(P, i, Q) == IF isLeaf(i) THEN [P EXCEPT !.nodes[i].next = Q] ELSE Q

\* node.left / node.right (after getNextPage); NilNode is the nil node
left(P, i) ==
  IF isLeaf(i) /\ P.nodes[i].next = NoPage THEN NilNode
  ELSE childPage(P, i).nodes[leftIndex(i)]
right(P, i) ==
  IF isLeaf(i) /\ P.nodes[i].next = NoPage THEN NilNode
  ELSE childPage(P, i).nodes[rightIndex(i)]

\* node.isShortcut aborts: index out of range on a value of 1..hashLength
\* bytes, or nil next page / nil slot 0 at a page leaf
isShortcutPanics(P, i) ==
  IF height(P, i) % 4 # 0
  THEN Len(P.nodes[i].val) # 0 /\ Len(P.nodes[i].val) <= hashLength
  ELSE \/ P.nodes[i].next = NoPage
       \/ P.nodes[i].next.nodes[0] = NilNode
       \/ Len(P.nodes[i].next.nodes[0].val) = 0

isShortcut(P, i) ==
  IF height(P, i) % 4 # 0
  THEN Len(P.nodes[i].val) # 0 /\ P.nodes[i].val[hashLength + 1] = One
  ELSE P.nodes[i].next.nodes[0].val[1] = One

\* node.makeShortcut
makeShortcut(P, i, key, val) ==
  IF isLeaf(i)
  THEN LET p0 == buildPage(<<>>, P.height - 4, Nil)
           p == [p0 EXCEPT !.nodes[0].val = <<One>>,
                           !.nodes[leftIndex(i)] = mkNode(key),
                           !.nodes[rightIndex(i)] = mkNode(val)]
       IN [P EXCEPT !.nodes[i].next = p]
  ELSE [P EXCEPT !.nodes[i].val = Zeros(hashLength) \o <<One>>,
                 !.nodes[leftIndex(i)] = mkNode(key),
                 !.nodes[rightIndex(i)] = mkNode(val)]

\* node.removeShortcut (the node is a shortcut)
removeShortcut(P, i) ==
  IF isLeaf(i)
  THEN [P EXCEPT !.nodes[i].next.nodes[0].val[1] = Zero,
                 !.nodes[i].next.nodes[1] = NilNode,
                 !.nodes[i].next.nodes[2] = NilNode]
  ELSE [P EXCEPT !.nodes[i].val[hashLength + 1] = Zero,
                 !.nodes[leftIndex(i)] = NilNode,
                 !.nodes[rightIndex(i)] = NilNode]

isEmptyNode(n) == n = NilNode \/ Len(n.val) = 0

\* node.calculateHash
calculateHash(P, i) ==
  LET l == left(P, i)
      r == right(P, i)
      sc == IF isShortcut(P, i) THEN One ELSE Zero
  IN IF isEmptyNode(l) /\ isEmptyNode(r) THEN Nil
     ELSE IF isEmptyNode(l)
       THEN hasher(defaultHashes(height(P, i) - 1), r.val) \o <<sc>>
     ELSE IF isEmptyNode(r)
       THEN hasher(Take(l.val, hashLength), defaultHashes(height(P, i) - 1)) \o <<sc>>
     ELSE hasher(Take(l.val, hashLength), r.val) \o <<sc>>

\* calculateHash aborts: left().val[:hashLength] on a shorter value, or isShortcut
calculateHashPanics(P, i) ==
  \/ (~isEmptyNode(left(P, i)) /\ Len(left(P, i).val) < hashLength)
  \/ (~(isEmptyNode(left(P, i)) /\ isEmptyNode(right(P, i))) /\ isShortcutPanics(P, i))

\* node.store without n.nextPage.root = n.val: the page goes back under the
\* id it was loaded from
storeInPlace(P, i, db) ==
  IF isLeaf(i) /\ P.nodes[i].next # NoPage
  THEN [P |-> [P EXCEPT !.nodes[i].next = NoPage],
        db |-> [id \in DOMAIN db \cup {toHash(P.nodes[i].next.root)} |->
                  IF id = toHash(P.nodes[i].next.root)
                  THEN getRawNodes(P.nodes[i].next) ELSE db[id]]]
  ELSE [P |-> P, db |-> db]

\* node.store: [P, db] after the call
store(P, i, db) ==
  IF isLeaf(i) /\ P.nodes[i].next # NoPage
  THEN [P |-> [P EXCEPT !.nodes[i].next = NoPage],
        db |-> [id \in DOMAIN db \cup {toHash(P.nodes[i].val)} |->
                  IF id = toHash(P.nodes[i].val)
                  THEN getRawNodes(P.nodes[i].next) ELSE db[id]]]
  ELSE [P |-> P, db |-> db]

\* node.initLeft / node.initRight
initLeft(P, i) ==
  IF left(P, i) # NilNode THEN P
  ELSE withChildPage(P, i, [childPage(P, i) EXCEPT !.nodes[leftIndex(i)] = mkNode(Nil)])
initRight(P, i) ==
  IF right(P, i) # NilNode THEN P
  ELSE withChildPage(P, i, [childPage(P, i) EXCEPT !.nodes[rightIndex(i)] = mkNode(Nil)])

\* buildRootNode: the root node sits at index batchLen-1 of a virtual page
\* above the trie; err when the page of a non-empty key is not in the store
buildRootNodeErr(key, db) == Len(key) # 0 /\ toHash(key) \notin DOMAIN db
buildRootNode(key, db) ==
  LET p1 == IF Len(key) = 0 THEN buildPage(<<>>, trieHeight, key)
            ELSE retrieveOrBuildPage(db, key, trieHeight)
  IN [root |-> Nil, height |-> trieHeight + 4,
      nodes |-> [i \in Slots |->
                   IF i = batchLen - 1 THEN [val |-> key, next |-> p1] ELSE NilNode]]
rootIndex == batchLen - 1

(* --------------------------- smt.update -------------------------------- *)
\* splitKeys: the number of keys that go left (keys before the first key
\* whose bit is set)
RECURSIVE splitKeys(_, _)
splitKeys(keys, bit) ==
  IF Len(keys) = 0 \/ bitIsSet(keys[1], bit) THEN 0
  ELSE 1 + splitKeys(Tail(keys), bit)

RECURSIVE kvLoop(_, _, _, _, _, _)
kvLoop(keys, values, sk, sv, i, higher) ==
  IF i > Len(keys) THEN [keys |-> <<>>, values |-> <<>>]
  ELSE IF sk = keys[i] THEN [keys |-> keys, values |-> values]
  ELSE IF ~higher /\ bytesLess(keys[i], sk)
    THEN kvLoop(keys, values, sk, sv, i + 1, TRUE)
  ELSE IF higher /\ bytesLess(sk, keys[i])
    THEN [keys |-> SubSeq(keys, 1, i - 1) \o <<sk>> \o SubSeq(keys, i, Len(keys)),
          values |-> SubSeq(values, 1, i - 1) \o <<sv>> \o SubSeq(values, i, Len(values))]
  ELSE kvLoop(keys, values, sk, sv, i + 1, higher)

maybeAddShortcutToKV(keys, values, shortcutKey, shortcutVal) ==
  IF bytesLess(shortcutKey, keys[1])
  THEN [keys |-> <<shortcutKey>> \o keys, values |-> <<shortcutVal>> \o values]
  ELSE IF bytesLess(keys[Len(keys)], shortcutKey)
  THEN [keys |-> keys \o <<shortcutKey>>, values |-> values \o <<shortcutVal>>]
  ELSE kvLoop(keys, values, shortcutKey, shortcutVal, 1, FALSE)

\* the value of node i of page P becomes v
setVal(P, i, v) == [P EXCEPT !.nodes[i].val = v]

\* smt.update on node i of page P: [P, db, st]; st = "panic" when the call
\* aborts.  The two child updates are applied left first.  The operators
\* below are the successive parts of the function body, last part first.
RECURSIVE update(_, _, _, _, _)

\* node.val = node.calculateHash(); node.store()
updateFinish(Q, i, d) ==
  IF calculateHashPanics(Q, i) THEN [P |-> Q, db |-> d, st |-> "panic"]
  ELSE store(setVal(Q, i, calculateHash(Q, i)), i, d) @@ [st |-> "ok"]

\* res := <-newch of the one child updated, or of the right child
updateAfterChild(Q, i, r) ==
  IF r.st # "ok" THEN [P |-> Q, db |-> r.db, st |-> r.st]
  ELSE updateFinish(withChildPage(Q, i, r.P), i, r.db)

\* the default case of the switch with lost writes: the right child is
\* updated on the page as it was before the left child's update
updateAfterLeftLost(Q, i, l, rkeys, rvalues) ==
  IF l.st # "ok" THEN [P |-> Q, db |-> l.db, st |-> l.st]
  ELSE updateAfterChild(withChildPage(Q, i, childPage(Q, i)), i,
                        update(childPage(Q, i), rightIndex(i), rkeys, rvalues, l.db))

\* lresult := <-lch, then the right child
updateAfterLeft(Q, i, l, rkeys, rvalues) ==
  IF l.st # "ok" THEN [P |-> Q, db |-> l.db, st |-> l.st]
  ELSE updateAfterChild(withChildPage(Q, i, l.P), i,
                        update(childPage(withChildPage(Q, i, l.P), i), rightIndex(i),
                               rkeys, rvalues, l.db))

\* the switch over lkeys and rkeys
updateChildren(P2, i, keys, values, splitIndex, db) ==
  IF splitIndex = 0
    THEN updateAfterChild(initRight(P2, i), i,
                          update(childPage(initRight(P2, i), i), rightIndex(i),
                                 keys, values, db))
  ELSE IF splitIndex = Len(keys)
    THEN updateAfterChild(initLeft(P2, i), i,
                          update(childPage(initLeft(P2, i), i), leftIndex(i),
                                 keys, values, db))
  ELSE updateAfterLeft(initLeft(initRight(P2, i), i), i,
                       update(childPage(initLeft(initRight(P2, i), i), i), leftIndex(i),
                              SubSeq(keys, 1, splitIndex), SubSeq(values, 1, splitIndex), db),
                       SubSeq(keys, splitIndex + 1, Len(keys)),
                       SubSeq(values, splitIndex + 1, Len(values)))

\* splitKeys, then a shortcut for a single key below which nothing exists
updateSplit(P2, i, kv, db) ==
  IF Len(kv.keys) = 0 THEN [P |-> P2, db |-> db, st |-> "panic"]
  ELSE IF left(P2, i) = NilNode /\ right(P2, i) = NilNode /\ Len(kv.keys) = 1
    THEN updateFinish(makeShortcut(P2, i, kv.keys[1], kv.values[1]), i, db)
  ELSE updateChildren(P2, i, kv.keys, kv.values,
                      splitKeys(kv.keys, trieHeight - height(P2, i)), db)

\* a shortcut met on the way joins the keys and is removed
updateShortcut(P1, i, keysIn, valuesIn, db) ==
  IF isShortcutPanics(P1, i) THEN [P |-> P1, db |-> db, st |-> "panic"]
  ELSE IF ~isShortcut(P1, i)
    THEN updateSplit(P1, i, [keys |-> keysIn, values |-> valuesIn], db)
  ELSE IF left(P1, i) = NilNode \/ right(P1, i) = NilNode
  THEN [P |-> P1, db |-> db, st |-> "panic"]
  ELSE IF Len(left(P1, i).val) < hashLength THEN [P |-> P1, db |-> db, st |-> "panic"]
  ELSE updateSplit(removeShortcut(P1, i), i,
                   maybeAddShortcutToKV(keysIn, valuesIn,
                                        Take(left(P1, i).val, hashLength), right(P1, i).val),
                   db)

update(Pin, i, keysIn, valuesIn, db) ==
  IF height(Pin, i) = 0
  THEN [P |-> setVal(Pin, i, valuesIn[1]), db |-> db, st |-> "ok"]
  ELSE updateShortcut(IF isLeaf(i) THEN getNextPage(Pin, i, db) ELSE Pin, i,
                      keysIn, valuesIn, db)

\* smt.Update: [root, db, err, st]; the root is replaced only when no error
\* and no abort happened
UpdateResult(rt, db, r) ==
  IF r.st # "ok" THEN [root |-> rt, db |-> db, err |-> "none", st |-> "panic", ret |-> Nil]
  ELSE [root |-> r.P.nodes[rootIndex].val, db |-> r.db,
        err |-> "none", st |-> "ok", ret |-> r.P.nodes[rootIndex].val]
Update(rt, db, keys, values) ==
  IF buildRootNodeErr(rt, db) THEN [root |-> rt, db |-> db, err |-> "unknown", st |-> "ok", ret |-> Nil]
  ELSE UpdateResult(rt, db, update(buildRootNode(rt, db), rootIndex, keys, values, db))

(* --------------------------- smt.delete -------------------------------- *)
\* smt.delete on node i of page P: [P, db, st, newVal, reloKey, reloValue];
\* the deferred n.store() is applied on every return.  The operators below
\* are the successive parts of the function body, last part first.
RECURSIVE delete(_, _, _, _)

\* a return: the deferred n.store(), then the three results
deleteReturn(Q, i, d, nv, rk, rv) ==
  store(Q, i, d) @@ [st |-> "ok", newVal |-> nv, reloKey |-> rk, reloValue |-> rv]
deleteAbort(Q, d) ==
  [P |-> Q, db |-> d, st |-> "panic", newVal |-> Nil, reloKey |-> Nil, reloValue |-> Nil]

\* n.val is cleared when child and sibling are gone, else recalculated
deleteHash(P3, i, d, clear, reloKey, reloValue) ==
  IF clear THEN deleteReturn(setVal(P3, i, Nil), i, d, Nil, reloKey, reloValue)
  ELSE IF calculateHashPanics(P3, i) THEN deleteAbort(P3, d)
  ELSE deleteReturn(setVal(P3, i, calculateHash(P3, i)), i, d,
                    calculateHash(P3, i), reloKey, reloValue)

\* the child came back empty and a sibling exists: a sibling that is a
\* shortcut is taken out and handed up as the relocation
deleteSibling(P1, i, aIdx, cpB0, d, reloKey, reloValue) ==
  IF isShortcutPanics(cpB0, aIdx) THEN deleteAbort(P1, d)
  ELSE IF ~isShortcut(cpB0, aIdx)
    THEN deleteHash(withChildPage(P1, i, cpB0), i, d, FALSE, reloKey, reloValue)
  ELSE IF left(cpB0, aIdx) = NilNode \/ right(cpB0, aIdx) = NilNode
    THEN deleteAbort(P1, d)
  ELSE deleteHash(withChildPage(P1, i, setVal(removeShortcut(cpB0, aIdx), aIdx, Nil)),
                  i, d, FALSE, left(cpB0, aIdx).val, right(cpB0, aIdx).val)

deleteLook(P1, i, aIdx, hasAlt, cp, d, childVal, reloKey, reloValue) ==
  IF childVal = Nil /\ hasAlt
  THEN deleteSibling(P1, i, aIdx,
                     IF isLeaf(aIdx) THEN getNextPage(cp, aIdx, d) ELSE cp,
                     d, reloKey, reloValue)
  ELSE deleteHash(withChildPage(P1, i, cp), i, d, childVal = Nil /\ ~hasAlt,
                  reloKey, reloValue)

\* keyChild.store() of the relocated shortcut
deleteRelocated(P1, i, kIdx, aIdx, hasAlt, sA) ==
  deleteLook(P1, i, aIdx, hasAlt, sA.P, sA.db, sA.P.nodes[kIdx].val, Nil, Nil)

\* keyChild.makeShortcut(reloKey, reloValue) and its hash
deleteRelocate(P1, i, kIdx, aIdx, hasAlt, cpA0, d) ==
  IF calculateHashPanics(cpA0, kIdx) THEN deleteAbort(P1, d)
  ELSE deleteRelocated(P1, i, kIdx, aIdx, hasAlt,
                       store(setVal(cpA0, kIdx, calculateHash(cpA0, kIdx)), kIdx, d))

\* after the recursive call: the shortcut handed up by the child is put
\* into the child when a sibling exists
deleteAfterChild(P1, i, kIdx, aIdx, hasAlt, r) ==
  IF r.st # "ok" THEN deleteAbort(P1, r.db)
  ELSE IF r.reloKey # Nil /\ hasAlt
    THEN deleteRelocate(P1, i, kIdx, aIdx, hasAlt,
                        makeShortcut(r.P, kIdx, r.reloKey, r.reloValue), r.db)
  ELSE deleteLook(P1, i, aIdx, hasAlt, r.P, r.db, r.newVal, r.reloKey, r.reloValue)

\* keyChild (index kIdx) and altChild (index aIdx); the recursive call
deleteChild(P1, i, key, db, kIdx, aIdx) ==
  deleteAfterChild(P1, i, kIdx, aIdx, childPage(P1, i).nodes[aIdx] # NilNode,
                   IF childPage(P1, i).nodes[kIdx] # NilNode
                   THEN delete(childPage(P1, i), kIdx, key, db)
                   ELSE [P |-> childPage(P1, i), db |-> db, st |-> "ok",
                         newVal |-> Nil, reloKey |-> Nil, reloValue |-> Nil])

\* a delete that takes out the shortcut its descent ends at without
\* comparing the stored key digest with the key
deleteNodeAnyKey(P1, i, key, db) ==
  IF isShortcutPanics(P1, i) THEN deleteAbort(P1, db)
  ELSE IF isShortcut(P1, i)
    THEN deleteReturn(setVal(removeShortcut(P1, i), i, Nil), i, db, Nil, Nil, Nil)
  ELSE IF bitIsSet(key, trieHeight - height(P1, i))
    THEN deleteChild(P1, i, key, db, rightIndex(i), leftIndex(i))
  ELSE deleteChild(P1, i, key, db, leftIndex(i), rightIndex(i))

\* a shortcut ends the descent; else the key's bit selects the child
deleteNode(P1, i, key, db) ==
  IF isShortcutPanics(P1, i) THEN deleteAbort(P1, db)
  ELSE IF isShortcut(P1, i)
    THEN IF left(P1, i) # NilNode /\ Len(left(P1, i).val) < hashLength
           THEN deleteAbort(P1, db)
         ELSE IF left(P1, i) # NilNode /\ key = Take(left(P1, i).val, hashLength)
           THEN deleteReturn(setVal(removeShortcut(P1, i), i, Nil), i, db, Nil, Nil, Nil)
         ELSE deleteReturn(P1, i, db, P1.nodes[i].val, Nil, Nil)
  ELSE IF bitIsSet(key, trieHeight - height(P1, i))
    THEN deleteChild(P1, i, key, db, rightIndex(i), leftIndex(i))
  ELSE deleteChild(P1, i, key, db, leftIndex(i), rightIndex(i))

delete(Pin, i, key, db) ==
  IF height(Pin, i) = 0 THEN deleteReturn(setVal(Pin, i, Nil), i, db, Nil, Nil, Nil)
  ELSE deleteNode(IF isLeaf(i) THEN getNextPage(Pin, i, db) ELSE Pin, i, key, db)

\* smt.Delete: the relocation returned for the root node is dropped
DeleteResult(rt, db, r) ==
  IF r.st # "ok" THEN [root |-> rt, db |-> db, err |-> "none", st |-> "panic", ret |-> Nil]
  ELSE [root |-> r.newVal, db |-> r.db, err |-> "none", st |-> "ok", ret |-> r.newVal]
Delete(rt, db, key) ==
  IF buildRootNodeErr(rt, db) THEN [root |-> rt, db |-> db, err |-> "unknown", st |-> "ok", ret |-> Nil]
  ELSE DeleteResult(rt, db, delete(buildRootNode(rt, db), rootIndex, key, db))

(* ----------------------------- smt.get2 -------------------------------- *)
\* a reference to a node: the page that holds it and its index; NilNode for nil
ref(P, i) == [P |-> P, i |-> i]
nodeOf(n) == n.P.nodes[n.i]

\* n.left() / n.right() of a referenced node, loading its next page from db
leftRef(n, db) ==
  LET Q == IF isLeaf(n.i) THEN getNextPage(n.P, n.i, db) ELSE n.P
  IN IF left(Q, n.i) = NilNode THEN NilNode ELSE ref(childPage(Q, n.i), leftIndex(n.i))
rightRef(n, db) ==
  LET Q == IF isLeaf(n.i) THEN getNextPage(n.P, n.i, db) ELSE n.P
  IN IF right(Q, n.i) = NilNode THEN NilNode ELSE ref(childPage(Q, n.i), rightIndex(n.i))

\* smt.get2: [val, st]; st = "panic" when the call aborts (nil node, nil
\* page, or a slice bound beyond the value's length)
RECURSIVE get2(_, _, _)
get2(n, key, db) ==
  IF n = NilNode THEN [val |-> Nil, st |-> "panic"]
  ELSE IF Len(nodeOf(n).val) = 0 THEN [val |-> Nil, st |-> "ok"]
  ELSE IF height(n.P, n.i) = 0
    THEN IF Len(nodeOf(n).val) < hashLength THEN [val |-> Nil, st |-> "panic"]
         ELSE [val |-> Take(nodeOf(n).val, hashLength), st |-> "ok"]
  ELSE
  LET Q == IF isLeaf(n.i) THEN getNextPage(n.P, n.i, db) ELSE n.P
  IN IF isShortcutPanics(Q, n.i) THEN [val |-> Nil, st |-> "panic"]
  ELSE IF isShortcut(Q, n.i)
    THEN IF left(Q, n.i) = NilNode \/ Len(left(Q, n.i).val) < hashLength
         THEN [val |-> Nil, st |-> "panic"]
         ELSE IF Take(left(Q, n.i).val, hashLength) = key
           THEN IF right(Q, n.i) = NilNode \/ Len(right(Q, n.i).val) < hashLength
                THEN [val |-> Nil, st |-> "panic"]
                ELSE [val |-> Take(right(Q, n.i).val, hashLength), st |-> "ok"]
         ELSE [val |-> Nil, st |-> "ok"]
  ELSE IF bitIsSet(key, trieHeight - height(Q, n.i))
    THEN get2(rightRef(ref(Q, n.i), db), key, db)
  ELSE get2(leftRef(ref(Q, n.i), db), key, db)

\* smt.GetPreviousValue: [val, err, st]
smtGetPreviousValue(prevRoot, key, db) ==
  IF buildRootNodeErr(prevRoot, db) THEN [val |-> Nil, err |-> "unknown", st |-> "ok"]
  ELSE get2(ref(buildRootNode(prevRoot, db), rootIndex), key, db) @@ [err |-> "none"]

(* -------------------------- smt.GetAllPrevious ------------------------- *)
\* depth-first traversal: [keys, values, err]; a shortcut emits its stored
\* key digest and value, a page missing from the store is an error.  The
\* digests of the keys used here leave each other's path within the first
\* byte, so every stored pair is a shortcut above height 0.
RECURSIVE getAll(_, _)
getAll(n, db) ==
  IF n = NilNode THEN [keys |-> <<>>, values |-> <<>>, err |-> "none"]
  ELSE IF Len(nodeOf(n).val) = 0 THEN [keys |-> <<>>, values |-> <<>>, err |-> "none"]
  ELSE
  LET Q == IF isLeaf(n.i) THEN getNextPage(n.P, n.i, db) ELSE n.P
  IN IF (isLeaf(n.i) /\ Q.nodes[n.i].next = NoPage) \/ isShortcutPanics(Q, n.i)
       THEN [keys |-> <<>>, values |-> <<>>, err |-> "missing"]
     ELSE IF isShortcut(Q, n.i)
       THEN [keys |-> <<Take(left(Q, n.i).val, hashLength)>>,
             values |-> <<IF right(Q, n.i) = NilNode THEN Nil ELSE right(Q, n.i).val>>,
             err |-> "none"]
     ELSE LET l == getAll(leftRef(ref(Q, n.i), db), db)
              r == getAll(rightRef(ref(Q, n.i), db), db)
          IN [keys |-> l.keys \o r.keys, values |-> l.values \o r.values,
              err |-> IF l.err # "none" THEN l.err ELSE r.err]

\* smt.GetAllPrevious: [keys, values, err]
smtGetAllPrevious(prevRoot, db) ==
  IF buildRootNodeErr(prevRoot, db) THEN [keys |-> <<>>, values |-> <<>>, err |-> "unknown"]
  ELSE getAll(ref(buildRootNode(prevRoot, db), rootIndex), db)

(* ----------------------------- smt.Erase ------------------------------- *)
RECURSIVE anyMatch(_, _)
anyMatch(adj, v) ==
  IF Len(adj) = 0 THEN FALSE
  ELSE (adj[1] # NilNode /\ nodeOf(adj[1]).val = v) \/ anyMatch(Tail(adj), v)

\* the lefts / rights lists built over the non-nil adjacent nodes
RECURSIVE lefts(_, _)
lefts(adj, db) ==
  IF Len(adj) = 0 THEN <<>>
  ELSE IF adj[1] = NilNode THEN lefts(Tail(adj), db)
  ELSE <<leftRef(adj[1], db)>> \o lefts(Tail(adj), db)
RECURSIVE rights(_, _)
rights(adj, db) ==
  IF Len(adj) = 0 THEN <<>>
  ELSE IF adj[1] = NilNode THEN rights(Tail(adj), db)
  ELSE <<rightRef(adj[1], db)>> \o rights(Tail(adj), db)

\* page.delete
pageDelete(db, pageRoot) == [id \in DOMAIN db \ {toHash(pageRoot)} |-> db[id]]

\* smt.eraseRecursive: [db, st]
RECURSIVE eraseRecursive(_, _, _)
eraseRecursive(n, adj, db) ==
  IF n = NilNode THEN [db |-> db, st |-> "ok"]
  ELSE IF anyMatch(adj, nodeOf(n).val) THEN [db |-> db, st |-> "ok"]
  ELSE
  LET ls == lefts(adj, db)
      rs == rights(adj, db)
      Q == IF isLeaf(n.i) THEN getNextPage(n.P, n.i, db) ELSE n.P
  IN IF isLeaf(n.i) /\ Q.nodes[n.i].next = NoPage THEN [db |-> db, st |-> "panic"]
     ELSE IF ~isLeaf(n.i) /\ isShortcutPanics(Q, n.i) THEN [db |-> db, st |-> "panic"]
     ELSE IF ~isLeaf(n.i) /\ isShortcut(Q, n.i) THEN [db |-> db, st |-> "ok"]
     ELSE
     LET db1 == IF isLeaf(n.i) THEN pageDelete(db, Q.nodes[n.i].next.root) ELSE db
         l == eraseRecursive(leftRef(ref(Q, n.i), db1), ls, db1)
     IN IF l.st # "ok" THEN l
        ELSE eraseRecursive(rightRef(ref(Q, n.i), l.db), rs, l.db)

\* smt.Erase: [db, err, st]
smtErase(rootHash, adjacents, db) ==
  IF buildRootNodeErr(rootHash, db) THEN [db |-> db, err |-> "unknown", st |-> "ok"]
  ELSE IF \E j \in 1..Len(adjacents) : buildRootNodeErr(adjacents[j], db)
    THEN [db |-> db, err |-> "unknown", st |-> "ok"]
  ELSE eraseRecursive(ref(buildRootNode(rootHash, db), rootIndex),
                      [j \in 1..Len(adjacents) |->
                         ref(buildRootNode(adjacents[j], db), rootIndex)], db)
         @@ [err |-> "none"]

(* ------------------------- history, facade ----------------------------- *)
\* base64.StdEncoding: EncodeToString wraps the bytes, DecodeString unwraps
\* them and fails on a string that is not an encoding
EncodeToString(bytes) == [b64 |-> bytes]
DecodeErr(str) == "b64" \notin DOMAIN str
DecodeString(str) == str.b64
Malformed == [bad |-> 1]

\* the keys callers use (byte strings) and their murmur3 digests: the first
\* byte of the digest is listed, the other bytes are zero.
\*   KeyA 0010 0000   KeyB 0011 0000 (leaves KeyA's path at bit 3)
\*   KeyC 1000 0000 (leaves both at bit 0)
KeyA == <<Raw(97)>>
KeyB == <<Raw(98)>>
KeyC == <<Raw(99)>>
Keys == {KeyA, KeyB, KeyC}
murmur(k) ==
  <<Raw(CASE k = KeyA -> 32 [] k = KeyB -> 48 [] k = KeyC -> 128 [] OTHER -> 64)>>
    \o Zeros(hashLength - 1)

\* the values callers put: shorter than, as long as, and longer than a digest
ValShort == [i \in 1..(hashLength - 1) |-> Raw(7)]
ValExact == [i \in 1..hashLength |-> Raw(8)]
ValLong == [i \in 1..(hashLength + 1) |-> Raw(9)]
Values == {ValShort, ValExact, ValLong}

stringToBytes(val) == val

\* trimLeadingZeroes: in[i:] for the index i the loop stops at
RECURSIVE trimIndex(_, _)
trimIndex(in, i) ==
  IF i > Len(in) THEN IF Len(in) = 0 THEN 1 ELSE Len(in)
  ELSE IF in[i] # Zero THEN i
  ELSE trimIndex(in, i + 1)
trimLeadingZeroes(in) == SubSeq(in, trimIndex(in, 1), Len(in))

\* a ledger: smt (root, db), history (list of cells, index, cell counter)
\* and the key cache
EmptyLedger ==
  [root |-> Nil, db |-> <<>>, history |-> <<>>, index |-> <<>>,
   nextCell |-> 1, keyCache |-> <<>>]

\* smtLedger.coerceKeyToHashLen: the digest; the key cache learns the key
coerceKeyToHashLen(L, key) ==
  [L EXCEPT !.keyCache = [d \in DOMAIN L.keyCache \cup {murmur(key)} |->
                            IF d = murmur(key) THEN stringToBytes(key) ELSE L.keyCache[d]]]

\* history append: a new cell at the back of the list, recorded under the
\* base64 form of the hash in the multimap (also when the hash recurs)
historyPut(L, key) ==
  [L EXCEPT !.history = Append(L.history, [id |-> L.nextCell, Value |-> key]),
            !.index = [r \in DOMAIN L.index \cup {EncodeToString(key)} |->
                         IF r = EncodeToString(key)
                         THEN (IF r \in DOMAIN L.index THEN L.index[r] ELSE <<>>)
                                \o <<L.nextCell>>
                         ELSE L.index[r]],
            !.nextCell = L.nextCell + 1]

\* smtLedger.RootHash
RootHash(L) == EncodeToString(L.root)

\* smtLedger.Put, split at its lock boundaries: smt.Update, history.Put, RootHash
\* the ledger after s.tree.Update / s.tree.Delete returned u; the key cache
\* has learnt the key
treeResult(L1, u) ==
  [L |-> [L1 EXCEPT !.root = u.root, !.db = u.db], b |-> u.ret, err |-> u.err, st |-> u.st]

PutUpdate(L, key, value) ==
  treeResult(coerceKeyToHashLen(L, key),
             Update(L.root, L.db, <<murmur(key)>>, <<stringToBytes(value)>>))

\* result = s.RootHash()
putRootHash(L2, err) == [L |-> L2, res |-> RootHash(L2), err |-> err, st |-> "ok"]

\* s.history.Put(b), whatever Update returned
putHistory(L, u) ==
  IF u.st # "ok" THEN [L |-> L, res |-> Nil, err |-> "none", st |-> "panic"]
  ELSE putRootHash(historyPut(u.L, u.b), u.err)

Put(L, key, value) == putHistory(L, PutUpdate(L, key, value))

\* smtLedger.Delete
DeleteDelete(L, key) ==
  treeResult(coerceKeyToHashLen(L, key), Delete(L.root, L.db, murmur(key)))

deleteHistory(L, u) ==
  IF u.st # "ok" THEN [L |-> L, res |-> Nil, err |-> "none", st |-> "panic"]
  ELSE IF u.err # "none" THEN [L |-> u.L, res |-> Nil, err |-> u.err, st |-> "ok"]
  ELSE [L |-> historyPut(u.L, u.b), res |-> Nil, err |-> "none", st |-> "ok"]

LedgerDelete(L, key) == deleteHistory(L, DeleteDelete(L, key))

\* result = string(trimLeadingZeroes(b))
getResult(L1, g) == [L |-> L1, res |-> trimLeadingZeroes(g.val), err |-> g.err, st |-> g.st]

\* smtLedger.GetPreviousValue: [L, res, err, st]
GetPreviousValue(L, previousRootHash, key) ==
  IF DecodeErr(previousRootHash) THEN [L |-> L, res |-> Nil, err |-> "decode", st |-> "ok"]
  ELSE getResult(coerceKeyToHashLen(L, key),
                 smtGetPreviousValue(DecodeString(previousRootHash), murmur(key), L.db))

\* smtLedger.Get
Get(L, key) == GetPreviousValue(L, RootHash(L), key)

\* smtLedger.GetAllPrevious: [res, err]; res maps the original keys to the
\* values; a digest the key cache does not hold adds an error
truekey(L, a, i) == trimLeadingZeroes(L.keyCache[a.keys[i]])
lastIndex(L, a, found, k) ==
  CHOOSE j \in found : /\ truekey(L, a, j) = k
                       /\ \A m \in found : truekey(L, a, m) = k => m <= j
resultMap(L, a, found) ==
  [res |-> [k \in {truekey(L, a, i) : i \in found} |->
              trimLeadingZeroes(a.values[lastIndex(L, a, found, k)])],
   err |-> IF a.err # "none" THEN a.err
           ELSE IF found # 1..Len(a.keys) THEN "nokey" ELSE "none"]
keysFound(L, a) == resultMap(L, a, {i \in 1..Len(a.keys) : a.keys[i] \in DOMAIN L.keyCache})
GetAllPrevious(L, prevRoot) ==
  IF DecodeErr(prevRoot) THEN [res |-> <<>>, err |-> "decode"]
  ELSE keysFound(L, smtGetAllPrevious(DecodeString(prevRoot), L.db))

\* smtLedger.GetAll
GetAll(L) == GetAllPrevious(L, RootHash(L))

\* position of the cell with the given id in the history list (0: none)
cellPos(hist, id) ==
  IF \E j \in 1..Len(hist) : hist[j].id = id
  THEN CHOOSE j \in 1..Len(hist) : hist[j].id = id ELSE 0

\* history occurrences: all cells holding the hash (may be empty)
historyGet(L, rootHash) ==
  IF rootHash \in DOMAIN L.index THEN L.index[rootHash] ELSE <<>>

\* list.Remove of every occurrence
historyRemove(hist, occ) ==
  SelectSeq(hist, LAMBDA c : \A j \in 1..Len(occ) : occ[j] # c.id)

\* smtLedger.EraseRootHash for the occurrences found: [L, err, st].
\* o.Prev() / o.Next() of a cell at an end of the list is nil and reading
\* its Value aborts.
occPos(L, occ, j) == cellPos(L.history, occ[j])
adjacentRoots(L, occ) ==
  [j \in 1..(2 * Len(occ)) |->
     IF j % 2 = 1 THEN L.history[occPos(L, occ, (j + 1) \div 2) - 1].Value
     ELSE L.history[occPos(L, occ, j \div 2) + 1].Value]
\* an erase that drops the latest occurrence only: the earlier cells stay
\* in the list and in the index
erasedLatestOnly(L, rootHash, occ, e) ==
  IF e.st # "ok" THEN [L |-> L, err |-> "none", st |-> "panic"]
  ELSE IF e.err # "none" THEN [L |-> L, err |-> e.err, st |-> "ok"]
  ELSE [L |-> [L EXCEPT !.db = e.db,
                        !.history = historyRemove(L.history, <<occ[Len(occ)]>>),
                        !.index = [r \in DOMAIN L.index |->
                                     IF r = rootHash
                                     THEN SubSeq(L.index[r], 1, Len(occ) - 1)
                                     ELSE L.index[r]]],
        err |-> "none", st |-> "ok"]
erased(L, rootHash, occ, e) ==
  IF e.st # "ok" THEN [L |-> L, err |-> "none", st |-> "panic"]
  ELSE IF e.err # "none" THEN [L |-> L, err |-> e.err, st |-> "ok"]
  ELSE [L |-> [L EXCEPT !.db = e.db,
                        !.history = historyRemove(L.history, occ),
                        !.index = [r \in DOMAIN L.index \ {rootHash} |-> L.index[r]]],
        err |-> "none", st |-> "ok"]
eraseOccurrences(L, rootHash, occ) ==
  IF \E j \in 1..Len(occ) : occPos(L, occ, j) = 1 \/ occPos(L, occ, j) = Len(L.history)
  THEN [L |-> L, err |-> "none", st |-> "panic"]
  ELSE erased(L, rootHash, occ,
              smtErase(L.history[occPos(L, occ, 1)].Value, adjacentRoots(L, occ), L.db))

\* EraseRootHash without its check of the occurrences: a hash that history
\* does not hold is decoded and erased from the trie all the same
EraseRootHashNoCheck(L, rootHash) ==
  IF Len(historyGet(L, rootHash)) = 0
  THEN IF DecodeErr(rootHash) THEN [L |-> L, err |-> "decode", st |-> "ok"]
       ELSE [L |-> [L EXCEPT !.db = smtErase(DecodeString(rootHash), <<>>, L.db).db],
             err |-> smtErase(DecodeString(rootHash), <<>>, L.db).err,
             st |-> smtErase(DecodeString(rootHash), <<>>, L.db).st]
  ELSE eraseOccurrences(L, rootHash, historyGet(L, rootHash))

\* smtLedger.EraseRootHash: [L, err, st]
EraseRootHash(L, rootHash) ==
  IF Len(historyGet(L, rootHash)) = 0 THEN [L |-> L, err |-> "notpresent", st |-> "ok"]
  ELSE eraseOccurrences(L, rootHash, historyGet(L, rootHash))

(* --------------------------- state machine ----------------------------- *)
\* bounds: mutations (put, delete) and erases of one behaviour
MaxOps == 3
MaxErase == 2

\* ledger   the smtLedger (trie root, page store, history, key cache)
\* crashed  a call aborted the process
\* obs      what the last call was given and what it returned
\* nOps, nErase  calls made so far
\* model    the key/value map the puts and deletes so far describe
\* seen     per history cell: the root it records, what get returned for
\*          every key while that root was current, whether it was erased
\* procs    per concurrent writer: where it is in its call, the call's
\*          locals and result, and the calls it made so far
\* currentHashUsed  gcledger: RootHash() was called since the last mutation
VARIABLES ledger, crashed, obs, nOps, nErase, model, seen, procs, currentHashUsed
vars == <<ledger, crashed, obs, nOps, nErase, model, seen, procs, currentHashUsed>>

\* the concurrent writers and the key each of them owns
Writers == {1, 2}
keyOf(w) == IF w = 1 THEN KeyA ELSE KeyB
Idle == [pc |-> "idle", op |-> "none", b |-> Nil, err |-> "none", res |-> Nil, calls |-> 0]

Init ==
  /\ ledger = EmptyLedger
  /\ crashed = FALSE
  /\ obs = [op |-> "none"]
  /\ nOps = 0
  /\ nErase = 0
  /\ model = <<>>
  /\ seen = <<>>
  /\ procs = [w \in Writers |-> Idle]
  /\ currentHashUsed = FALSE

\* what a call returned, without the ledger
returned(g) == [res |-> g.res, err |-> g.err, st |-> g.st]

\* the record kept for the cell a mutation appended
seenAfter(L, b) ==
  [c \in DOMAIN seen \cup {L.nextCell - 1} |->
     IF c \in DOMAIN seen THEN seen[c]
     ELSE [root |-> b, erased |-> FALSE,
           gets |-> [k \in Keys |-> returned(GetPreviousValue(L, EncodeToString(b), k))]]]

\* a caller's Put(k, v)
DoPut(k, v) ==
  /\ ~crashed /\ nOps < MaxOps
  /\ \E r \in {Put(ledger, k, v)} :
        /\ ledger' = r.L
        /\ crashed' = (r.st = "panic")
        /\ obs' = [op |-> "put", key |-> k, value |-> v, res |-> r.res,
                   err |-> r.err, st |-> r.st]
        /\ seen' = IF r.st = "ok" THEN seenAfter(r.L, r.L.root) ELSE seen
  /\ nOps' = nOps + 1
  /\ model' = [x \in DOMAIN model \cup {k} |-> IF x = k THEN v ELSE model[x]]
  /\ UNCHANGED <<nErase, procs, currentHashUsed>>

\* a caller's Delete(k)
DoDelete(k) ==
  /\ ~crashed /\ nOps < MaxOps
  /\ \E r \in {LedgerDelete(ledger, k)} :
        /\ ledger' = r.L
        /\ crashed' = (r.st = "panic")
        /\ obs' = [op |-> "delete", key |-> k, err |-> r.err, st |-> r.st,
                   before |-> GetAll(ledger).res]
        /\ seen' = IF r.st = "ok" /\ r.err = "none" THEN seenAfter(r.L, r.L.root) ELSE seen
  /\ nOps' = nOps + 1
  /\ model' = [x \in DOMAIN model \ {k} |-> model[x]]
  /\ UNCHANGED <<nErase, procs, currentHashUsed>>

\* a caller's Get(k)
DoGet(k) ==
  /\ ~crashed
  /\ \E r \in {Get(ledger, k)} :
        /\ ledger' = r.L
        /\ crashed' = (r.st = "panic")
        /\ obs' = [op |-> "get", key |-> k, res |-> r.res, err |-> r.err, st |-> r.st]
  /\ UNCHANGED <<nOps, nErase, model, seen, procs, currentHashUsed>>

\* a caller's GetAll()
DoGetAll ==
  /\ ~crashed
  /\ \E r \in {GetAll(ledger)} :
        obs' = [op |-> "getall", res |-> r.res, err |-> r.err]
  /\ UNCHANGED <<ledger, crashed, nOps, nErase, model, seen, procs, currentHashUsed>>

\* root hashes a caller may pass: every root a mutation returned so far
\* (erased since or not), one that no mutation returned, and a string that
\* is not base64
NeverEmitted == EncodeToString(<<Raw(1), Raw(1), Zero>>)
Emitted == {EncodeToString(seen[c].root) : c \in DOMAIN seen}
RootArgs == Emitted \cup {NeverEmitted, Malformed}

\* a caller's EraseRootHash(r)
DoErase(r) ==
  /\ ~crashed /\ nErase < MaxErase
  /\ \E e \in {EraseRootHash(ledger, r)} :
        /\ ledger' = e.L
        /\ crashed' = (e.st = "panic")
        /\ obs' = [op |-> "erase", root |-> r, err |-> e.err, st |-> e.st,
                   before |-> ledger]
        /\ seen' = IF e.st = "ok" /\ e.err = "none"
                   THEN [c \in DOMAIN seen |->
                           IF EncodeToString(seen[c].root) = r
                           THEN [seen[c] EXCEPT !.erased = TRUE] ELSE seen[c]]
                   ELSE seen
  /\ nErase' = nErase + 1
  /\ UNCHANGED <<nOps, model, procs, currentHashUsed>>

\* a caller's GetPreviousValue(r, k)
DoGetPrevious(r, k) ==
  /\ ~crashed
  /\ \E g \in {GetPreviousValue(ledger, r, k)} :
        /\ ledger' = g.L
        /\ crashed' = (g.st = "panic")
        /\ obs' = [op |-> "getprev", root |-> r, key |-> k, res |-> g.res,
                   err |-> g.err, st |-> g.st]
  /\ UNCHANGED <<nOps, nErase, model, seen, procs, currentHashUsed>>

Next ==
  \/ \E k \in Keys, v \in Values : DoPut(k, v)
  \/ \E k \in Keys : DoDelete(k)
  \/ \E k \in Keys : DoGet(k)
  \/ DoGetAll
Spec == Init /\ [][Next]_vars

\* versions and their erasure: two keys, puts that overwrite and add, the
\* erase of any root argument, reads at any root argument
ErasePuts == {<<KeyA, ValExact>>, <<KeyA, ValLong>>, <<KeyB, ValLong>>}
NextErase ==
  \/ \E kv \in ErasePuts : DoPut(kv[1], kv[2])
  \/ DoDelete(KeyA)
  \/ \E r \in RootArgs : DoErase(r)
  \/ \E r \in RootArgs, k \in {KeyA, KeyB} : DoGetPrevious(r, k)
SpecErase == Init /\ [][NextErase]_vars

(* ------------------------ concurrent callers --------------------------- *)
\* smtLedger holds no lock of its own: a Put is smt.Update (under the trie
\* lock), then history.Put (under the history lock), then RootHash; a Delete
\* is smt.Delete, then history.Put.  Between these steps other callers run.
MaxCalls == 2
ConcValues == {ValLong}

\* Put, first step: the key is cached and smt.Update runs
CallPut(w, v) ==
  /\ ~crashed /\ procs[w].pc = "idle" /\ procs[w].calls < MaxCalls
  /\ \E u \in {PutUpdate(ledger, keyOf(w), v)} :
        /\ ledger' = IF u.st = "ok" THEN u.L ELSE ledger
        /\ crashed' = (u.st = "panic")
        /\ procs' = [procs EXCEPT ![w] =
                       [pc |-> "history", op |-> "put", b |-> u.b, err |-> u.err,
                        res |-> Nil, calls |-> @.calls + 1]]
  /\ model' = [x \in DOMAIN model \cup {keyOf(w)} |-> IF x = keyOf(w) THEN v ELSE model[x]]
  /\ nOps' = nOps + 1
  /\ obs' = [op |-> "call", w |-> w]
  /\ UNCHANGED <<nErase, seen, currentHashUsed>>

\* Delete, first step: the key is cached and smt.Delete runs; an error
\* returns at once
CallDelete(w) ==
  /\ ~crashed /\ procs[w].pc = "idle" /\ procs[w].calls < MaxCalls
  /\ \E u \in {DeleteDelete(ledger, keyOf(w))} :
        /\ ledger' = IF u.st = "ok" THEN u.L ELSE ledger
        /\ crashed' = (u.st = "panic")
        /\ procs' = [procs EXCEPT ![w] =
                       [pc |-> IF u.err = "none" THEN "history" ELSE "idle",
                        op |-> "delete", b |-> u.b, err |-> u.err,
                        res |-> Nil, calls |-> @.calls + 1]]
  /\ model' = [x \in DOMAIN model \ {keyOf(w)} |-> model[x]]
  /\ nOps' = nOps + 1
  /\ obs' = [op |-> "call", w |-> w]
  /\ UNCHANGED <<nErase, seen, currentHashUsed>>

\* second step of both: history.Put(b); a Delete returns after it
StepHistory(w) ==
  /\ ~crashed /\ procs[w].pc = "history"
  /\ \E L \in {historyPut(ledger, procs[w].b)} :
        /\ ledger' = L
        /\ seen' = seenAfter(L, procs[w].b)
  /\ procs' = [procs EXCEPT ![w].pc = IF procs[w].op = "put" THEN "root" ELSE "idle"]
  /\ obs' = [op |-> "step", w |-> w]
  /\ UNCHANGED <<crashed, nOps, nErase, model, currentHashUsed>>

\* third step of Put: result = RootHash(), returned to the caller
StepReturn(w) ==
  /\ ~crashed /\ procs[w].pc = "root"
  /\ procs' = [procs EXCEPT ![w].pc = "idle", ![w].res = RootHash(ledger)]
  /\ obs' = [op |-> "step", w |-> w]
  /\ UNCHANGED <<ledger, crashed, nOps, nErase, model, seen, currentHashUsed>>

\* a reader's RootHash()
DoRootHash ==
  /\ ~crashed
  /\ obs' = [op |-> "roothash", res |-> RootHash(ledger)]
  /\ UNCHANGED <<ledger, crashed, nOps, nErase, model, seen, procs, currentHashUsed>>

\* a reader's GetAllPrevious(r)
DoGetAllPrevious(r) ==
  /\ ~crashed
  /\ \E g \in {GetAllPrevious(ledger, r)} :
        obs' = [op |-> "getallprev", root |-> r, res |-> g.res, err |-> g.err]
  /\ UNCHANGED <<ledger, crashed, nOps, nErase, model, seen, procs, currentHashUsed>>

\* the roots in history that were not erased and are not the current root
OldRoots ==
  {EncodeToString(seen[c].root) : c \in {x \in DOMAIN seen : ~seen[x].erased}}
    \ {RootHash(ledger)}

NextConc ==
  \/ \E w \in Writers, v \in ConcValues : CallPut(w, v)
  \/ \E w \in Writers : CallDelete(w)
  \/ \E w \in Writers : StepHistory(w)
  \/ \E w \in Writers : StepReturn(w)
  \/ \E r \in OldRoots : DoErase(r)
  \/ \E r \in OldRoots : DoGetAllPrevious(r)
  \/ DoRootHash
SpecConc == Init /\ [][NextConc]_vars

(* ----------------------------- gcledger -------------------------------- *)
\* gcledger wraps the smtLedger: every method holds g.lock from entry to
\* return, so a method is one step for every other caller of the gcledger.

\* gcledger.hanldemutation: [L, used, gced, err, st]; used is currentHashUsed
\* afterwards, gced tells that the prior root was erased
handled(e) ==
  [L |-> e.L, used |-> FALSE, gced |-> (e.st = "ok" /\ e.err = "none"),
   err |-> e.err, st |-> e.st]
hanldemutation(L, used, priorRoot) ==
  IF Len(DecodeString(priorRoot)) = 0
  THEN [L |-> L, used |-> used, gced |-> FALSE, err |-> "none", st |-> "ok"]
  ELSE IF ~used THEN handled(EraseRootHash(L, priorRoot))
  ELSE [L |-> L, used |-> FALSE, gced |-> FALSE, err |-> "none", st |-> "ok"]

\* the part of gcledger.Put / gcledger.Delete after the inner call returned r
gcResult(res, h) ==
  [L |-> h.L, used |-> h.used, gced |-> h.gced, res |-> res, err |-> h.err, st |-> h.st]
gcMutated(r, prior, used) ==
  IF r.st # "ok" \/ r.err # "none"
  THEN [L |-> r.L, used |-> used, gced |-> FALSE, res |-> r.res, err |-> r.err, st |-> r.st]
  ELSE gcResult(r.res, hanldemutation(r.L, used, prior))

\* gcledger.Put, gcledger.Delete: [L, used, gced, res, err, st]
gcledgerPut(L, used, key, value) == gcMutated(Put(L, key, value), RootHash(L), used)
gcledgerDelete(L, used, key) == gcMutated(LedgerDelete(L, key), RootHash(L), used)

\* the cells of the erased prior root are marked in seen
gcSeen(r, prior) ==
  IF r.st # "ok" \/ r.err # "none" THEN seen
  ELSE [c \in DOMAIN seenAfter(r.L, r.L.root) |->
          IF r.gced /\ c \in DOMAIN seen /\ EncodeToString(seen[c].root) = prior
          THEN [seen[c] EXCEPT !.erased = TRUE]
          ELSE seenAfter(r.L, r.L.root)[c]]

\* a caller's Put(k, v) on the gcledger
DoGcPut(k, v) ==
  /\ ~crashed /\ nOps < MaxOps
  /\ \E r \in {gcledgerPut(ledger, currentHashUsed, k, v)} :
        /\ ledger' = r.L
        /\ currentHashUsed' = r.used
        /\ crashed' = (r.st = "panic")
        /\ obs' = [op |-> "put", key |-> k, value |-> v, res |-> r.res,
                   err |-> r.err, st |-> r.st]
        /\ seen' = gcSeen(r, RootHash(ledger))
  /\ nOps' = nOps + 1
  /\ model' = [x \in DOMAIN model \cup {k} |-> IF x = k THEN v ELSE model[x]]
  /\ UNCHANGED <<nErase, procs>>

\* a caller's Delete(k) on the gcledger
DoGcDelete(k) ==
  /\ ~crashed /\ nOps < MaxOps
  /\ \E r \in {gcledgerDelete(ledger, currentHashUsed, k)} :
        /\ ledger' = r.L
        /\ currentHashUsed' = r.used
        /\ crashed' = (r.st = "panic")
        /\ obs' = [op |-> "delete", key |-> k, err |-> r.err, st |-> r.st,
                   before |-> GetAll(ledger).res]
        /\ seen' = gcSeen(r, RootHash(ledger))
  /\ nOps' = nOps + 1
  /\ model' = [x \in DOMAIN model \ {k} |-> model[x]]
  /\ UNCHANGED <<nErase, procs>>

\* gcledger.RootHash: the current root is marked as used
DoGcRootHash ==
  /\ ~crashed
  /\ currentHashUsed' = TRUE
  /\ obs' = [op |-> "roothash", res |-> RootHash(ledger)]
  /\ UNCHANGED <<ledger, crashed, nOps, nErase, model, seen, procs>>

GcPuts == {<<KeyA, ValExact>>, <<KeyA, ValLong>>, <<KeyB, ValLong>>, <<KeyC, ValLong>>}
NextGc ==
  \/ \E kv \in GcPuts : DoGcPut(kv[1], kv[2])
  \/ \E k \in {KeyA, KeyB} : DoGcDelete(k)
  \/ DoGcRootHash
  \/ \E k \in {KeyA, KeyB} : DoGet(k)
SpecGc == Init /\ [][NextGc]_vars

(* ------------------------------ claims --------------------------------- *)
\* the ledger a fresh process holds after putting exactly the pairs of m
KeyOrder == <<KeyA, KeyB, KeyC>>
RECURSIVE putAll(_, _, _)
putAll(L, m, i) ==
  IF i > Len(KeyOrder) THEN L
  ELSE IF KeyOrder[i] \in DOMAIN m
    THEN putAll(Put(L, KeyOrder[i], m[KeyOrder[i]]).L, m, i + 1)
  ELSE putAll(L, m, i + 1)
Fresh(m) == putAll(EmptyLedger, m, 1)

\* C1: the root hash after any sequence of puts and deletes is the root hash
\* of every other sequence that ends with the same key/value map; here: of
\* the sequence that puts just the pairs of that map into a fresh ledger.
C1_RootDependsOnlyOnMap == ~crashed => ledger.root = Fresh(model).root

\* C2: a get of a key that was put with value v, and not put or deleted
\* since, returns v and no error.
C2_GetReturnsPutValue ==
  (obs.op = "get" /\ obs.key \in DOMAIN model)
    => (obs.st = "ok" /\ obs.err = "none" /\ obs.res = model[obs.key])

\* C5: after delete(k) of a key k the ledger holds, get_all, get of every key
\* and the root hash are those of a fresh ledger into which the other pairs
\* the ledger held were put.
C5_DeleteEqualsFreshWithout ==
  (obs.op = "delete" /\ obs.key \in DOMAIN obs.before)
    => LET rest == [x \in DOMAIN obs.before \ {obs.key} |-> obs.before[x]]
           F == Fresh(rest)
       IN /\ obs.st = "ok" /\ obs.err = "none"
          /\ ledger.root = F.root
          /\ GetAll(ledger).res = rest
          /\ \A x \in Keys : LET g == Get(ledger, x)
                                  f == Get(F, x)
                              IN g.res = f.res /\ g.err = f.err /\ g.st = f.st

\* C6: a get of a key the ledger does not hold (never put, or deleted)
\* returns the empty value and no error.
C6_GetAbsentIsEmpty ==
  (obs.op = "get" /\ obs.key \notin DOMAIN model)
    => (obs.st = "ok" /\ obs.err = "none" /\ obs.res = Nil)

\* what a read returned, as a caller sees it
result(g) == [res |-> g.res, err |-> g.err, st |-> g.st]

\* C3: get_previous(R, k), for a root R that a mutation returned and that was
\* not erased since, returns what get(k) returned while R was current.
C3_PreviousEqualsGetAtEmission ==
  obs.op = "getprev"
    => \A c \in DOMAIN seen :
         (EncodeToString(seen[c].root) = obs.root /\ ~seen[c].erased
            /\ seen[c].gets[obs.key].st = "ok")
           => [res |-> obs.res, err |-> obs.err, st |-> obs.st] = seen[c].gets[obs.key]

\* C4: after a successful erase of R, every other root that still has a cell
\* in history reads, for every key, as it read before the erase.
C4_EraseLeavesOtherVersions ==
  (obs.op = "erase" /\ obs.st = "ok" /\ obs.err = "none")
    => \A j \in 1..Len(ledger.history) : \A k \in Keys :
         LET R == EncodeToString(ledger.history[j].Value)
             was == result(GetPreviousValue(obs.before, R, k))
         IN (R # obs.root /\ was.st = "ok" /\ was.err = "none")
              => result(GetPreviousValue(ledger, R, k)) = was

\* C10: an erase of a root hash that has no cell in history returns the
\* "not present" error and leaves history list, index, page store and root
\* as they were.
C10_EraseAbsentRoot ==
  (obs.op = "erase" /\ historyGet(obs.before, obs.root) = <<>>)
    => /\ obs.st = "ok" /\ obs.err = "notpresent"
       /\ ledger.history = obs.before.history
       /\ ledger.index = obs.before.index
       /\ ledger.db = obs.before.db
       /\ ledger.root = obs.before.root

\* C10 happens: a root that a mutation returned and an erase removed is
\* erased once more, in a ledger that holds other versions and pages
C10_Witness ==
  /\ obs.op = "erase" /\ obs.err = "notpresent" /\ ~crashed
  /\ \E c \in DOMAIN seen : seen[c].erased /\ EncodeToString(seen[c].root) = obs.root
  /\ Len(ledger.history) >= 2
  /\ DOMAIN ledger.db # {}

\* C7: when two callers each made one Put, on different keys, and both
\* returned, the two returned root hashes differ, each is the root that
\* caller's own update produced, both have a cell in history, and the
\* ledger holds both pairs.
C7_ConcurrentPuts ==
  (/\ \A w \in Writers :
        procs[w].pc = "idle" /\ procs[w].op = "put" /\ procs[w].calls = 1
   /\ nErase = 0 /\ ~crashed)
    => /\ procs[1].res # procs[2].res
       /\ \A w \in Writers :
            /\ procs[w].err = "none"
            /\ procs[w].res = EncodeToString(procs[w].b)
            /\ historyGet(ledger, procs[w].res) # <<>>
       /\ GetAll(ledger) = [res |-> model, err |-> "none"]

\* C8: whenever a reader's RootHash() returns the root a mutation produced,
\* history holds a cell for it and every page reachable from it is in the
\* page store.
C8_MutationAtomicToReaders ==
  (obs.op = "roothash" /\ nOps > 0)
    => /\ historyGet(ledger, obs.res) # <<>>
       /\ smtGetAllPrevious(DecodeString(obs.res), ledger.db).err = "none"

\* C9: with writers on disjoint keys, erases of old roots and get_all_previous
\* readers of old roots, no call aborts or returns an error, and once all
\* writers returned get_all is the map their puts and deletes describe.
C9_ConcurrentWritersErasesReaders ==
  /\ ~crashed
  /\ \A w \in Writers : procs[w].err = "none"
  /\ obs.op \in {"erase", "getallprev"} => obs.err = "none"
  /\ (\A w \in Writers : procs[w].pc = "idle")
       => GetAll(ledger) = [res |-> model, err |-> "none"]

(* ----------------------- histories with repeats ------------------------ *)
\* longer histories, in which a version can recur in consecutive cells: the
\* puts of SpecErase up to MaxVersions of them, the erase of any root
\* argument, reads at any root argument
MaxVersions == 4

\* a caller's Put(k, v), one of up to MaxVersions
DoPutVersion(k, v) ==
  /\ ~crashed /\ nOps < MaxVersions
  /\ \E r \in {Put(ledger, k, v)} :
        /\ ledger' = r.L
        /\ crashed' = (r.st = "panic")
        /\ obs' = [op |-> "put", key |-> k, value |-> v, res |-> r.res,
                   err |-> r.err, st |-> r.st]
        /\ seen' = IF r.st = "ok" THEN seenAfter(r.L, r.L.root) ELSE seen
  /\ nOps' = nOps + 1
  /\ model' = [x \in DOMAIN model \cup {k} |-> IF x = k THEN v ELSE model[x]]
  /\ UNCHANGED <<nErase, procs, currentHashUsed>>

NextVersions ==
  \/ \E kv \in ErasePuts : DoPutVersion(kv[1], kv[2])
  \/ \E r \in RootArgs : DoErase(r)
  \/ \E r \in RootArgs, k \in {KeyA, KeyB} : DoGetPrevious(r, k)
SpecVersions == Init /\ [][NextVersions]_vars

\* C11: once EraseRootHash(R) has succeeded, GetPreviousValue(R, k) returns
\* the error of an unknown root node for every key k, whatever cells of the
\* history held R, and never a value of the erased version.
C11_ErasedRootIsUnknown ==
  (obs.op = "erase" /\ obs.st = "ok" /\ obs.err = "none") =>
     \A k \in Keys : \E g \in {GetPreviousValue(ledger, obs.root, k)} :
        g.st = "ok" /\ g.err = "unknown"

\* C12: for every cell of the history that records a non-empty root R, the
\* page store holds a page under the id of R (its first hashLength bytes);
\* only EraseRootHash(R) itself, which also removes the cell, takes it away.
C12_HistoryRootsHavePages ==
  ~crashed =>
     \A j \in 1..Len(ledger.history) :
        Len(ledger.history[j].Value) # 0 =>
           toHash(ledger.history[j].Value) \in DOMAIN ledger.db

(* --------------------------- tree validity ----------------------------- *)
\* a referenced node with its next page loaded, as n.left(), n.right() and
\* n.isShortcut() leave it
loadRef(n, db) == IF isLeaf(n.i) THEN ref(getNextPage(n.P, n.i, db), n.i) ELSE n

\* nilChildren(n, expect) of validateRecursive: no error returned
nilChildren(n, db, expect) ==
  /\ (leftRef(n, db) = NilNode) = expect
  /\ (rightRef(n, db) = NilNode) = expect

\* validateRecursive, carried on past a failed assertion: the set of
\* failures met in the walk.  "value": the node's value is not what
\* calculateHash gives; "shortcut": a shortcut lacks a child or has a
\* grandchild; "panic": calculateHash or isShortcut aborts at the node (the
\* page below a non-empty page leaf is not in the store, or the value is too
\* short to index)
RECURSIVE validateRecursive(_, _)
validateLoaded(m, db) ==
  IF calculateHashPanics(m.P, m.i) THEN {"panic"}
  ELSE (IF nodeOf(m).val = calculateHash(m.P, m.i) THEN {} ELSE {"value"})
       \cup (IF isShortcutPanics(m.P, m.i) THEN {"panic"}
             ELSE IF isShortcut(m.P, m.i)
               THEN IF /\ nilChildren(m, db, FALSE)
                       /\ nilChildren(leftRef(m, db), db, TRUE)
                       /\ nilChildren(rightRef(m, db), db, TRUE)
                    THEN {} ELSE {"shortcut"}
             ELSE validateRecursive(leftRef(m, db), db)
                    \cup validateRecursive(rightRef(m, db), db))
validateRecursive(n, db) ==
  IF n = NilNode THEN {} ELSE validateLoaded(loadRef(n, db), db)

\* validate: the walk from the current root
validate(L) ==
  IF buildRootNodeErr(L.root, L.db) THEN {"unknown"}
  ELSE validateRecursive(ref(buildRootNode(L.root, L.db), rootIndex), L.db)

\* C13: after every put, delete and erase the trie under the current root
\* has a well-formed shortcut structure: every shortcut node has both its
\* children (key digest and value), these have no children of their own, so
\* no path holds two shortcuts, and the walk can tell of every node whether
\* it is a shortcut.
C13_ShortcutsWellFormed ==
  (~crashed /\ obs.op \in {"put", "delete", "erase"}) =>
     validate(ledger) \cap {"shortcut", "panic", "unknown"} = {}

\* C14: after every put, delete and erase every non-leaf node reachable from
\* the current root stores the value calculateHash gives for its current
\* children (the default hash for an empty child, the shortcut flag last).
C14_NodesStoreTheirHash ==
  (~crashed /\ obs.op \in {"put", "delete", "erase"}) =>
     "value" \notin validate(ledger)

\* C15: the gcledger erases every version on which RootHash() was not
\* called: a Put or Delete that succeeds does not abort and adds one cell
\* to the history when RootHash() was called on the prior version (or there
\* was none), and replaces the prior version's cell by the new one when it
\* was not, so that N puts with no RootHash() between them leave one cell.
C15_GcErasesUnusedVersions ==
  [][nOps' = nOps + 1 =>
       /\ ~crashed'
       /\ obs'.err = "none" =>
            Len(ledger'.history) =
               IF currentHashUsed \/ Len(ledger.history) = 0
               THEN Len(ledger.history) + 1 ELSE Len(ledger.history)]_vars

\* C16: every unique state of the map has a unique root hash: the root of
\* the ledger is the root of no other key/value map (over the same keys and
\* values, each built by puts on an empty ledger), so a put or delete that
\* changes the map changes the root.
C16_UniqueRootPerMap ==
  ~crashed =>
     \A S \in SUBSET Keys : \A m \in [S -> Values] :
        m # model => Fresh(m).root # ledger.root

\* C17: Put(k2, v2) leaves every other key untouched: for every key k1 other
\* than k2, held or not, Get(k1) returns after the put what it returned
\* before it, also when the put pushed k1's shortcut deeper.
C17_PutLeavesOtherKeys ==
  [][obs'.op = "put" /\ nOps' = nOps + 1 =>
       \A k1 \in Keys \ {obs'.key} :
          ~crashed' /\ returned(Get(ledger', k1)) = returned(Get(ledger, k1))]_vars

\* the descent of get2 for key from node n comes to a page leaf with a
\* non-empty value whose next page is not in the store
RECURSIVE pageMissing(_, _, _)
pageMissing(n, key, db) ==
  IF n = NilNode THEN FALSE
  ELSE IF Len(nodeOf(n).val) = 0 \/ height(n.P, n.i) = 0 THEN FALSE
  ELSE IF isLeaf(n.i) /\ getNextPage(n.P, n.i, db).nodes[n.i].next = NoPage THEN TRUE
  ELSE IF isShortcutPanics(loadRef(n, db).P, n.i) THEN FALSE
  ELSE IF isShortcut(loadRef(n, db).P, n.i) THEN FALSE
  ELSE IF bitIsSet(key, trieHeight - height(n.P, n.i))
    THEN pageMissing(rightRef(n, db), key, db)
  ELSE pageMissing(leftRef(n, db), key, db)

\* GetPreviousValue(r, k) needs a page the store does not hold: the root
\* page of r, or a page further down the path of k
needsMissingPage(L, r, k) ==
  /\ ~DecodeErr(r)
  /\ \/ buildRootNodeErr(DecodeString(r), L.db)
     \/ pageMissing(ref(buildRootNode(DecodeString(r), L.db), rootIndex),
                    murmur(k), L.db)

\* C18: a read that needs a page the store does not hold, the root page or
\* one further down, returns an error: it neither returns a value (or "")
\* with no error nor aborts.
C18_MissingPageIsAnError ==
  (obs.op = "getprev" /\ needsMissingPage(ledger, obs.root, obs.key)) =>
     (obs.st = "ok" /\ obs.err # "none")

\* the ids of the stored pages in the page DAG below node n: the next page
\* of every page leaf with a non-empty value, followed through left() and
\* right() down to the shortcuts
RECURSIVE pagesOf(_, _)
pagesOf(n, db) ==
  IF n = NilNode THEN {}
  ELSE IF Len(nodeOf(n).val) = 0 THEN {}
  ELSE IF isLeaf(n.i) /\ loadRef(n, db).P.nodes[n.i].next = NoPage THEN {}
  ELSE (IF isLeaf(n.i) THEN {toHash(nodeOf(n).val)} ELSE {})
       \cup (IF isShortcutPanics(loadRef(n, db).P, n.i) THEN {}
             ELSE IF isShortcut(loadRef(n, db).P, n.i) THEN {}
             ELSE pagesOf(leftRef(n, db), db) \cup pagesOf(rightRef(n, db), db))

\* C19: smt.Erase(R, adjacents) deletes a page only if its id appears
\* nowhere in the page DAG of any adjacent root, at whatever position or
\* height: every page a successful EraseRootHash took out of the store is
\* outside the DAGs of the roots next to the erased cells.
C19_ErasedPagesUnusedByAdjacents ==
  (obs.op = "erase" /\ obs.st = "ok" /\ obs.err = "none") =>
     \A id \in DOMAIN obs.before.db \ DOMAIN ledger.db :
        \A r \in {adjacentRoots(obs.before, historyGet(obs.before, obs.root))[j] :
                    j \in 1..(2 * Len(historyGet(obs.before, obs.root)))} :
           id \notin pagesOf(ref(buildRootNode(r, obs.before.db), rootIndex),
                             obs.before.db)

C21_EraseAtEndsOfHistory ==
  (/\ obs.op = "erase"
   /\ \E j \in 1..Len(historyGet(obs.before, obs.root)) :
         occPos(obs.before, historyGet(obs.before, obs.root), j)
            \in {1, Len(obs.before.history)}) =>
     /\ obs.st = "ok" /\ obs.err = "none"
     /\ \A j \in 1..Len(ledger.history) :
           EncodeToString(ledger.history[j].Value) # obs.root

\* C22: the history list is the chronological record of the emitted roots:
\* in every interleaving of concurrent mutations the cells stand in the
\* order in which their roots became current, so that whenever no mutation
\* is between its trie update and its history append, the newest cell holds
\* the current root.
C22_HistoryIsChronological ==
  (/\ ~crashed
   /\ \A w \in Writers : procs[w].pc # "history"
   /\ Len(ledger.history) > 0) =>
     ledger.history[Len(ledger.history)].Value = ledger.root

(* --------------------------- shortcut placement ------------------------ *)
\* the depth of the topmost node whose subtree holds key k and no other key
\* of map m: the least number of leading digest bits that part k from all
\* of them
aloneDepth(k, m) ==
  CHOOSE d \in 0..trieHeight :
    /\ \A k2 \in DOMAIN m \ {k} :
          \E i \in 0..(d - 1) : bitIsSet(murmur(k), i) # bitIsSet(murmur(k2), i)
    /\ \A e \in 0..(d - 1) :
          \E k2 \in DOMAIN m \ {k} :
             \A i \in 0..(e - 1) : bitIsSet(murmur(k), i) = bitIsSet(murmur(k2), i)

\* the node d levels below n on the path of key, by left() / right() as
\* update and get2 descend (NilNode where the path ends earlier)
RECURSIVE nodeAt(_, _, _, _)
nodeAt(n, key, d, db) ==
  IF n = NilNode \/ d = 0 THEN n
  ELSE IF bitIsSet(key, trieHeight - height(n.P, n.i))
    THEN nodeAt(rightRef(n, db), key, d - 1, db)
  ELSE nodeAt(leftRef(n, db), key, d - 1, db)

\* C23: after any sequence of puts and deletes every subtree of the current
\* trie that holds exactly one pair of the map is a shortcut at its topmost
\* node, with the key digest as left and the value as right child; a map of
\* one pair has a shortcut root.
C23_LonePairIsTopmostShortcut ==
  ~crashed =>
     \A k \in DOMAIN model :
        \E n \in {nodeAt(ref(buildRootNode(ledger.root, ledger.db), rootIndex),
                         murmur(k), aloneDepth(k, model), ledger.db)} :
           /\ n # NilNode
           /\ Len(nodeOf(n).val) # 0
           /\ ~isShortcutPanics(loadRef(n, ledger.db).P, n.i)
           /\ isShortcut(loadRef(n, ledger.db).P, n.i)
           /\ leftRef(n, ledger.db) # NilNode
           /\ rightRef(n, ledger.db) # NilNode
           /\ Take(nodeOf(leftRef(n, ledger.db)).val, hashLength) = murmur(k)
           /\ nodeOf(rightRef(n, ledger.db)).val = stringToBytes(model[k])

(* ------------------------- puts and deletes ---------------------------- *)
\* puts of values of exactly hashLength bytes, which Get returns as put, and
\* deletes, over all three keys
NextDelete ==
  \/ \E k \in Keys : DoPut(k, ValExact)
  \/ \E k \in Keys : DoDelete(k)
  \/ \E k \in Keys : DoGet(k)
SpecDelete == Init /\ [][NextDelete]_vars

updateAfterRight(Q, i, r, lkeys, lvalues) ==
  IF r.st # "ok" THEN [P |-> Q, db |-> r.db, st |-> r.st]
  ELSE updateAfterChild(withChildPage(Q, i, r.P), i,
                        update(childPage(withChildPage(Q, i, r.P), i), leftIndex(i),
                               lkeys, lvalues, r.db))

\* the node at which smt.update, called with these keys, starts both child
\* updates (the default case of its switch): the page with both children
\* initialised, the node, the two key ranges and the store
RECURSIVE splitOf(_, _, _, _, _)
splitAt(P2, i, kv, db) ==
  LET n == splitKeys(kv.keys, trieHeight - height(P2, i)) IN
  IF Len(kv.keys) = 0 THEN [found |-> FALSE]
  ELSE IF left(P2, i) = NilNode /\ right(P2, i) = NilNode /\ Len(kv.keys) = 1
    THEN [found |-> FALSE]
  ELSE IF n = 0
    THEN splitOf(childPage(initRight(P2, i), i), rightIndex(i), kv.keys, kv.values, db)
  ELSE IF n = Len(kv.keys)
    THEN splitOf(childPage(initLeft(P2, i), i), leftIndex(i), kv.keys, kv.values, db)
  ELSE [found |-> TRUE, Q |-> initLeft(initRight(P2, i), i), i |-> i, db |-> db,
        lkeys |-> SubSeq(kv.keys, 1, n), lvalues |-> SubSeq(kv.values, 1, n),
        rkeys |-> SubSeq(kv.keys, n + 1, Len(kv.keys)),
        rvalues |-> SubSeq(kv.values, n + 1, Len(kv.values))]
splitShortcut(P1, i, keysIn, valuesIn, db) ==
  IF isShortcutPanics(P1, i) THEN [found |-> FALSE]
  ELSE IF ~isShortcut(P1, i)
    THEN splitAt(P1, i, [keys |-> keysIn, values |-> valuesIn], db)
  ELSE IF left(P1, i) = NilNode \/ right(P1, i) = NilNode THEN [found |-> FALSE]
  ELSE IF Len(left(P1, i).val) < hashLength THEN [found |-> FALSE]
  ELSE splitAt(removeShortcut(P1, i), i,
               maybeAddShortcutToKV(keysIn, valuesIn,
                                    Take(left(P1, i).val, hashLength), right(P1, i).val),
               db)
splitOf(Pin, i, keysIn, valuesIn, db) ==
  IF height(Pin, i) = 0 THEN [found |-> FALSE]
  ELSE splitShortcut(IF isLeaf(i) THEN getNextPage(Pin, i, db) ELSE Pin, i,
                     keysIn, valuesIn, db)

\* the split a Put(key, value) on ledger L reaches
putSplit(L, key, value) ==
  IF buildRootNodeErr(L.root, L.db) THEN [found |-> FALSE]
  ELSE splitOf(buildRootNode(L.root, L.db), rootIndex,
               <<murmur(key)>>, <<stringToBytes(value)>>, L.db)

C26_StoredPagesImmutable ==
  [][\A id \in DOMAIN ledger.db \cap DOMAIN ledger'.db : ledger'.db[id] = ledger.db[id]]_vars

\* a Put that changed nothing has just written again every page on the path
\* of its key, under ids the store already held
C26_Witness ==
  /\ ~crashed /\ obs.op = "put" /\ obs.err = "none"
  /\ Len(ledger.history) >= 2
  /\ Len(ledger.root) # 0
  /\ ledger.history[Len(ledger.history)].Value = ledger.root
  /\ ledger.history[Len(ledger.history) - 1].Value = ledger.root
  /\ toHash(ledger.root) \in DOMAIN ledger.db

(* ------------- keys and values with zero bytes, key cache eviction ----- *)
\* the LRU key cache drops the entry of a digest (keys coerced since have
\* filled the cache)
DoEvict(d) ==
  /\ ~crashed /\ d \in DOMAIN ledger.keyCache
  /\ ledger' = [ledger EXCEPT !.keyCache = [x \in DOMAIN ledger.keyCache \ {d} |->
                                              ledger.keyCache[x]]]
  /\ obs' = [op |-> "evict", digest |-> d]
  /\ UNCHANGED <<crashed, nOps, nErase, model, seen, procs, currentHashUsed>>

\* Put, Get and GetAll with a key that begins with a zero byte (<<0, 97>>,
\* first byte of its digest 0100 0000) and with values as long as a digest:
\* without zero byte, with a leading zero byte, of zero bytes only
NextBytes ==
  \/ \E k \in {KeyA, <<Zero, Raw(97)>>},
        v \in {ValExact, <<Zero>> \o [i \in 1..(hashLength - 1) |-> Raw(8)], Zeros(hashLength)} :
          DoPut(k, v)
  \/ \E k \in {KeyA, <<Zero, Raw(97)>>} : DoGet(k)
  \/ DoGetAll
  \/ \E k \in {KeyA, <<Zero, Raw(97)>>} : DoEvict(murmur(k))
SpecBytes == Init /\ [][NextBytes]_vars

\* C27: GetAll returns, under its original key, every pair of the trie whose
\* digest the key cache holds, and reports an error when the key cache
\* lacks the digest of a pair.
C27_GetAllReturnsOriginalKeys ==
  ~crashed =>
    \E g \in {GetAll(ledger)} :
      /\ \A k \in DOMAIN model :
           murmur(k) \in DOMAIN ledger.keyCache =>
             /\ k \in DOMAIN g.res
             /\ g.res[k] = trimLeadingZeroes(model[k])
      /\ (\E k \in DOMAIN model : murmur(k) \notin DOMAIN ledger.keyCache) => g.err # "none"

\* C28: the string Get returns for a stored key is the stored value without
\* its leading zero bytes: unchanged when it has none, empty when the value
\* holds zero bytes only.
C28_GetStripsLeadingZeroes ==
  (~crashed /\ obs.op = "get" /\ obs.key \in DOMAIN model) =>
    /\ obs.err = "none"
    /\ \E n \in 0..Len(model[obs.key]) :
         /\ \A i \in 1..n : model[obs.key][i] = Zero
         /\ n = Len(model[obs.key]) \/ model[obs.key][n + 1] # Zero
         /\ obs.res = SubSeq(model[obs.key], n + 1, Len(model[obs.key]))

(* ------------- callers that race, and the erase of the current root ---- *)
\* two writers whose Put and Delete run step by step, a caller whose Put
\* is not interrupted, and the erase of the root hash the ledger reports
NextRace ==
  \/ \E w \in Writers, v \in ConcValues : CallPut(w, v)
  \/ CallDelete(2)
  \/ \E w \in Writers : StepHistory(w)
  \/ \E w \in Writers : StepReturn(w)
  \/ DoErase(RootHash(ledger))
  \/ DoPut(KeyB, ValExact)
SpecRace == Init /\ [][NextRace]_vars

\* C29: no step of a Put or Delete whose trie update returned an error
\* changes the root, the history list, the history index or the page store.
C29_FailedMutationChangesNothing ==
  [][\A w \in Writers :
       (procs'[w] # procs[w] /\ procs'[w].err # "none") =>
         /\ ledger'.root = ledger.root
         /\ ledger'.history = ledger.history
         /\ ledger'.index = ledger.index
         /\ ledger'.db = ledger.db]_vars

\* C30: on the gcledger, a Put or Delete whose mutation of the inner ledger
\* succeeded neither aborts nor returns an error, and leaves a current root
\* that, when not empty, has a cell in the history and every page on the
\* path of every key in the store; a Put of the value already stored and a
\* Delete of an absent key are such mutations.
C30_GcKeepsCurrentRoot ==
  [][nOps' = nOps + 1 =>
       /\ (IF obs'.op = "put"
           THEN /\ Put(ledger, obs'.key, obs'.value).st = "ok"
                /\ Put(ledger, obs'.key, obs'.value).err = "none"
           ELSE /\ LedgerDelete(ledger, obs'.key).st = "ok"
                /\ LedgerDelete(ledger, obs'.key).err = "none")
            => (~crashed' /\ obs'.err = "none")
       /\ (~crashed' /\ Len(ledger'.root) # 0) =>
            /\ historyGet(ledger', RootHash(ledger')) # <<>>
            /\ \A k \in Keys : ~needsMissingPage(ledger', RootHash(ledger'), k)]_vars

====
